---- MODULE Spec2Model ----
(***************************************************************************)
(* The LaTeX extraction / placeholder / reinsertion pipeline of the        *)
(* Markdown component (src/src/components/markdown.tsx).                   *)
(*                                                                         *)
(* Text is a sequence of lexical atoms.  Every atom is one character,      *)
(* except the three words the placeholder tokens are built from            *)
(* ("LATEXBLOCK", "LATEXINLINE", "END"), which are kept whole: none of the *)
(* regular expressions of the component can match inside one of them, and  *)
(* all of them treat such a word as a run of ordinary characters.          *)
(* Offsets and lengths are counted in atoms.                               *)
(***************************************************************************)
EXTENDS Integers, Sequences, FiniteSets, TLC

VARIABLES
    children,          \* the raw text: the component's children prop
    processedContent,  \* modifiedContent, the text with the placeholders
    latexBlocks,       \* the span store
    emitted,           \* the ids the replace callbacks have returned
    pass,              \* how many of the four patterns have been scanned
    cursor,            \* the offset where the text run last rendered ends
    leaf,              \* the text last given to renderer.text
    out,               \* what renderer.text returned for it
    kids,              \* the rendered children collected for the next node
    handler,           \* the composite handler called with kids, or "none"
    node,              \* what that handler returned
    renders,           \* how often the parent has rendered <Markdown> again
    deps,              \* the dependency list useMemo computed its value for
    log,               \* history: the extractions of the earlier renders
    props,             \* the children prop of a WordByWordFadeIn element
    shown,             \* what WordByWordFadeIn rendered for it
    reqs,              \* the POST /api/upload requests: input, position, response
    now,               \* what Date.now() returns on the server
    puts,              \* the calls of put so far, in order
    uploading,         \* the uploading state of each useFileUpload instance
    calls,             \* the uploadFile calls so far: file, position, result
    uploadedFiles,     \* appStore: state.uploadedFiles
    input,             \* PromptInput's input prop
    isLoading,         \* PromptInput's isLoading prop
    toolMentionItems,  \* PromptInput's toolMentionItems state
    messages           \* the messages passed to append

memoVars == <<renders, deps, log>>
revealVars == <<props, shown>>
routeVars == <<reqs, now, puts>>
clientVars == <<uploading, calls, uploadedFiles, input, isLoading,
                toolMentionItems, messages>>
uploadVars == <<routeVars, clientVars>>
markdownVars == <<children, processedContent, latexBlocks, emitted, pass,
                  cursor, leaf, out, kids, handler, node, memoVars, revealVars>>

vars == <<children, processedContent, latexBlocks, emitted, pass,
          cursor, leaf, out, kids, handler, node, memoVars, revealVars,
          uploadVars>>

(***************************************************************************)
(* Bounds of the model.                                                    *)
(***************************************************************************)
MaxFrags == 4
MaxDocFrags == 3
MaxRenders == 2
ManySpans == 10
MaxWordLen == 3
MaxItems == 2
MaxClock == 1
MaxCalls == 2
MaxMessages == 2

(***************************************************************************)
(* Strings.                                                                *)
(***************************************************************************)
BS == "\\"
NL == "\n"
TAB == "\t"
DigitChars == <<"0", "1", "2", "3", "4", "5", "6", "7", "8", "9">>
IsDigit(c) == \E d \in 1..10 : DigitChars[d] = c

Min(S) == CHOOSE x \in S : \A y \in S : x <= y

\* s.slice(from - 1, to) in 1-based inclusive offsets
Slice(s, from, to) == SubSeq(s, from, to)

\* the word w stands in s at offset i
HasAt(s, i, w) ==
    /\ i >= 1
    /\ i + Len(w) - 1 <= Len(s)
    /\ \A k \in 1..Len(w) : s[i + k - 1] = w[k]

IsSubstring(w, s) == \E i \in 1..(Len(s) + 1) : HasAt(s, i, w)

RECURSIVE Concats(_, _)
Concats(F, n) ==
    IF n = 0 THEN {<<>>}
    ELSE LET prev == Concats(F, n - 1)
         IN  prev \cup {p \o f : p \in prev, f \in F}

RECURSIVE Repeat(_, _)
Repeat(w, n) == IF n = 0 THEN <<>> ELSE w \o Repeat(w, n - 1)

\* `${n}` of a template literal: the decimal digits of n
RECURSIVE ToDigits(_)
ToDigits(n) ==
    IF n < 10 THEN <<DigitChars[n + 1]>>
    ELSE ToDigits(n \div 10) \o <<DigitChars[(n % 10) + 1]>>

(***************************************************************************)
(* The four delimiter patterns, in the order the extractor scans them.     *)
(***************************************************************************)
\* /\\\[([\s\S]*?)\\\]/g and /\$\$([\s\S]*?)\$\$/g
blockPatterns ==
    << [shape |-> "lazy", left |-> <<BS, "[">>, right |-> <<BS, "]">>, isBlock |-> TRUE],
       [shape |-> "lazy", left |-> <<"$", "$">>, right |-> <<"$", "$">>, isBlock |-> TRUE] >>

\* /\\\(([\s\S]*?)\\\)/g and /\$(?![{#])[^\$\n]+?\$/g
inlinePatterns ==
    << [shape |-> "lazy", left |-> <<BS, "(">>, right |-> <<BS, ")">>, isBlock |-> FALSE],
       [shape |-> "dollar", left |-> <<"$">>, right |-> <<"$">>, isBlock |-> FALSE] >>

\* left ([\s\S]*?) right, tried at offset i: the offset of the last atom of
\* the match, 0 when the pattern does not match at i.  LazyMatchEndPlus is
\* the faulty variant with +? for *?
LazyMatchEndPlus(p, s, i) ==
    IF ~HasAt(s, i, p.left) THEN 0
    ELSE LET closers == {j \in (i + Len(p.left) + 1)..Len(s) : HasAt(s, j, p.right)}
         IN  IF closers = {} THEN 0
             ELSE Min(closers) + Len(p.right) - 1

LazyMatchEnd(p, s, i) ==
    IF ~HasAt(s, i, p.left) THEN 0
    ELSE LET closers == {j \in (i + Len(p.left))..Len(s) : HasAt(s, j, p.right)}
         IN  IF closers = {} THEN 0
             ELSE Min(closers) + Len(p.right) - 1

\* \$(?![{#])[^\$\n]+?\$ tried at offset i.  DollarMatchEndStar is the
\* faulty variant with *? for +?
DollarMatchEndStar(s, i) ==
    IF ~(HasAt(s, i, <<"$">>) /\ i + 1 <= Len(s) /\ s[i + 1] \notin {"{", "#"})
    THEN 0
    ELSE LET closers == {j \in (i + 1)..Len(s) :
                            /\ s[j] = "$"
                            /\ \A k \in (i + 1)..(j - 1) : s[k] \notin {"$", NL}}
         IN  IF closers = {} THEN 0 ELSE Min(closers)

DollarMatchEnd(s, i) ==
    IF ~(HasAt(s, i, <<"$">>) /\ i + 1 <= Len(s) /\ s[i + 1] \notin {"{", "#"})
    THEN 0
    ELSE LET closers == {j \in (i + 2)..Len(s) :
                            /\ s[j] = "$"
                            /\ \A k \in (i + 1)..(j - 1) : s[k] \notin {"$", NL}}
         IN  IF closers = {} THEN 0 ELSE Min(closers)

MatchEnd(p, s, i) ==
    IF p.shape = "lazy" THEN LazyMatchEnd(p, s, i) ELSE DollarMatchEnd(s, i)

\* the leftmost offset >= from at which the pattern matches, 0 when none
FirstMatch(p, s, from) ==
    LET starts == {i \in from..Len(s) : MatchEnd(p, s, i) > 0}
    IN  IF starts = {} THEN 0 ELSE Min(starts)

(***************************************************************************)
(* The replace callbacks (markdown.tsx 76-80 and 90-94).                   *)
(***************************************************************************)
\* `LATEXBLOCK${latexBlocks.length}END` / `LATEXINLINE${latexBlocks.length}END`
\* MarkerIdPerKind is the faulty variant that numbers each kind on its own
MarkerIdPerKind(word, blocks) ==
    LET same == {j \in DOMAIN blocks : blocks[j].isBlock = (word = "LATEXBLOCK")}
    IN  <<word>> \o ToDigits(Cardinality(same)) \o <<"END">>

MarkerId(word, blocks) == <<word>> \o ToDigits(Len(blocks)) \o <<"END">>

\* latexBlocks.push({ id, content: match, isBlock }).  PushBlockOnly is the
\* faulty variant that records display math only, PushFront the one that
\* puts the new span before the others
PushFront(blocks, span) == <<span>> \o blocks

PushBlockOnly(blocks, span) == IF span.isBlock THEN Append(blocks, span) ELSE blocks

Push(blocks, span) == Append(blocks, span)

\* content: match -- the whole matched text.  MatchedContentInner is the
\* faulty variant that keeps the capture group, without the delimiters
MatchedContentInner(p, s, i, e) == Slice(s, i + Len(p.left), e - Len(p.right))

MatchedContent(p, s, i, e) == Slice(s, i, e)

\* modifiedContent.replace(pattern, callback) with the g flag: the matches
\* are found left to right in s, each after the end of the one before
RECURSIVE ReplaceFrom(_, _, _, _, _)
ReplaceFrom(p, word, s, pos, acc) ==
    LET i == FirstMatch(p, s, pos)
    IN  IF i = 0
        THEN [acc EXCEPT !.text = @ \o Slice(s, pos, Len(s))]
        ELSE LET e  == MatchEnd(p, s, i)
                 id == MarkerId(word, acc.blocks)
             IN  ReplaceFrom(p, word, s, e + 1,
                    [text   |-> acc.text \o Slice(s, pos, i - 1) \o id,
                     blocks |-> Push(acc.blocks,
                                   [id |-> id,
                                    content |-> MatchedContent(p, s, i, e),
                                    isBlock |-> p.isBlock]),
                     ids    |-> Append(acc.ids, id)])

ReplaceAll(p, word, s, blocks) ==
    ReplaceFrom(p, word, s, 1, [text |-> <<>>, blocks |-> blocks, ids |-> <<>>])

\* the four forEach iterations of the useMemo callback.
\* PatternOfPassInlineFirst is the faulty variant with the inline patterns first
PatternOfPassInlineFirst(k) ==
    IF k <= 2 THEN [pattern |-> inlinePatterns[k], word |-> "LATEXINLINE"]
    ELSE [pattern |-> blockPatterns[k - 2], word |-> "LATEXBLOCK"]

PatternOfPass(k) ==
    IF k <= 2 THEN [pattern |-> blockPatterns[k], word |-> "LATEXBLOCK"]
    ELSE [pattern |-> inlinePatterns[k - 2], word |-> "LATEXINLINE"]

NPasses == Len(blockPatterns) + Len(inlinePatterns)

\* the whole useMemo callback as a function of the raw text
RECURSIVE ExtractFrom(_, _, _)
ExtractFrom(k, text, blocks) ==
    IF k > NPasses THEN [text |-> text, blocks |-> blocks]
    ELSE LET pp == PatternOfPass(k)
             r  == ReplaceAll(pp.pattern, pp.word, text, blocks)
         IN  ExtractFrom(k + 1, r.text, r.blocks)

Extract(raw) == ExtractFrom(1, raw, <<>>)

(***************************************************************************)
(* The raw texts the component is given (its children prop).               *)
(***************************************************************************)
\* the pieces raw texts are assembled from: the delimiters, prose, and a
\* placeholder-shaped word typed by the author
Fragments ==
    { <<BS, "[">>, <<BS, "]">>, <<BS, "(">>, <<BS, ")">>, <<"$">>,
      <<"a">>, <<NL>>, <<"{">>, <<"LATEXBLOCK", "0", "END">> }

\* "$$ a $$ and $ b $"
PrecedenceExample ==
    <<"$", "$", " ", "a", " ", "$", "$", " ", "a", "n", "d", " ", "$", " ", "b", " ", "$">>

\* one display span and then so many inline spans that the numbering
\* reaches two digits
ManySpansExample ==
    <<BS, "[", "b", BS, "]">> \o Repeat(<<BS, "(", "a", BS, ")">>, ManySpans)

\* "5$ \[a\nb\] 3$": two dollar signs on different lines, with a display
\* span of two lines between them
DollarsAroundBlockExample ==
    <<"5", "$", " ", BS, "[", "a", NL, "b", BS, "]", " ", "3", "$">>

Inputs ==
    Concats(Fragments, MaxFrags)
        \cup {PrecedenceExample, ManySpansExample, DollarsAroundBlockExample}

\* a rendered node that is not there yet
Null == [type |-> "null", className |-> "", text |-> <<>>, kids |-> <<>>,
         display |-> FALSE]

InitWith(texts) ==
    /\ children \in texts
    /\ processedContent = children      \* let modifiedContent = children
    /\ latexBlocks = <<>>
    /\ emitted = <<>>
    /\ pass = 0
    /\ cursor = 0
    /\ leaf = <<>>
    /\ out = Null
    /\ kids = <<>>
    /\ handler = "none"
    /\ node = Null
    /\ renders = 0
    /\ deps = <<children>>             \* useMemo(..., [children]) on mount
    /\ log = <<>>

\* no WordByWordFadeIn element is being looked at
NotShown == [units |-> <<>>, done |-> FALSE]
NoReveal == props = <<>> /\ shown = NotShown

\* no request has reached the upload route
NoRoute == reqs = <<>> /\ now = 0 /\ puts = <<>>

\* the prompt input as mounted: nothing typed, nothing uploaded, nothing sent
NoClient ==
    /\ uploading = [inst \in {"select", "paste"} |-> FALSE]   \* useState(false)
    /\ calls = <<>>
    /\ uploadedFiles = <<>>
    /\ input = <<>>
    /\ isLoading = FALSE
    /\ toolMentionItems = <<>>                                \* useState([])
    /\ messages = <<>>

(***************************************************************************)
(* useMemo callback, one forEach iteration (one pattern) per step.         *)
(***************************************************************************)
ExtractPass ==
    /\ pass < NPasses
    /\ LET pp == PatternOfPass(pass + 1)
           r  == ReplaceAll(pp.pattern, pp.word, processedContent, latexBlocks)
       IN  /\ processedContent' = r.text
           /\ latexBlocks' = r.blocks
           /\ emitted' = emitted \o r.ids
    /\ pass' = pass + 1
    /\ UNCHANGED <<children, cursor, leaf, out, kids, handler, node,
                   memoVars, revealVars, uploadVars>>

Extracted == pass = NPasses

ExtractInit == InitWith(Inputs) /\ NoReveal /\ NoRoute /\ NoClient
ExtractNext == ExtractPass
ExtractSpec == ExtractInit /\ [][ExtractNext]_vars

(***************************************************************************)
(* Rendered nodes: React elements.  type is the component or host tag,     *)
(* className its class, text a string child, kids the element children,    *)
(* display the display flag of a Latex element's delimiter set.            *)
(***************************************************************************)
Elem(type, className, text, elems, display) ==
    [type |-> type, className |-> className, text |-> text, kids |-> elems,
     display |-> display]

\* <WordByWordFadeIn>{text}</WordByWordFadeIn>
Literal(text) == Elem("WordByWordFadeIn", "", text, <<>>, FALSE)

\* <Latex delimiters={...display: isBlock} strict={false}>{content}</Latex>
Math(content, isBlock) == Elem("Latex", "", content, <<>>, isBlock)

(***************************************************************************)
(* renderer.text (markdown.tsx 102-250).                                   *)
(***************************************************************************)
\* /LATEXBLOCK(\d+)END/ or /LATEXINLINE(\d+)END/ tried at offset i: the
\* offset of END, 0 when there is no match at i
MarkerMatchEnd(word, s, i) ==
    IF ~HasAt(s, i, <<word>>) THEN 0
    ELSE LET ends == {j \in (i + 2)..Len(s) :
                         /\ s[j] = "END"
                         /\ \A k \in (i + 1)..(j - 1) : IsDigit(s[k])}
         IN  IF ends = {} THEN 0 ELSE Min(ends)

\* pattern.test(text).  TestAlways is the faulty variant that finds a
\* placeholder in every text
TestAlways(word, s) == TRUE

Test(word, s) == \E i \in 1..Len(s) : MarkerMatchEnd(word, s, i) > 0

\* text.match(/^LATEXBLOCK(\d+)END$/) and text.match(/^LATEXINLINE(\d+)END$/)
SingleMatch(word, s) == Len(s) > 0 /\ MarkerMatchEnd(word, s, 1) = Len(s)

\* while ((match = pattern.exec(text)) !== null) allMatches.push(...)
RECURSIVE ExecAll(_, _, _, _)
ExecAll(word, isBlock, s, lastIndex) ==
    LET starts == {i \in lastIndex..Len(s) : MarkerMatchEnd(word, s, i) > 0}
    IN  IF starts = {} THEN <<>>
        ELSE LET i == Min(starts)
                 e == MarkerMatchEnd(word, s, i)
             IN  <<[index |-> i, last |-> e, isBlock |-> isBlock]>>
                    \o ExecAll(word, isBlock, s, e + 1)

\* allMatches.sort((a, b) => a.match.index - b.match.index).  Unsorted is
\* the faulty variant that leaves the matches as collected, block matches first
Unsorted(ms) == ms

RECURSIVE SortByIndex(_)
SortByIndex(ms) ==
    IF ms = <<>> THEN <<>>
    ELSE LET least == CHOOSE k \in DOMAIN ms :
                          \A m \in DOMAIN ms :
                              \/ ms[k].index < ms[m].index
                              \/ (ms[k].index = ms[m].index /\ k <= m)
             rest  == [n \in 1..(Len(ms) - 1) |->
                          IF n < least THEN ms[n] ELSE ms[n + 1]]
         IN  <<ms[least]>> \o SortByIndex(rest)

\* latexBlocks.find((block) => block.id === id): its offset in the store,
\* 0 for undefined
Find(blocks, id) ==
    LET hits == {j \in DOMAIN blocks : blocks[j].id = id}
    IN  IF hits = {} THEN 0 ELSE Min(hits)

\* what one match pushes (191-232): the Latex element of its span or, in
\* the fallback, the marker as text.  ResolvedNoFallback is the faulty
\* variant without the fallback branch
ResolvedNoFallback(blocks, fullMatch, isBlock) ==
    LET j == Find(blocks, fullMatch)
    IN  IF j # 0 THEN <<Math(blocks[j].content, isBlock)>> ELSE <<>>

Resolved(blocks, fullMatch, isBlock) ==
    LET j == Find(blocks, fullMatch)
    IN  IF j # 0 THEN <<Math(blocks[j].content, isBlock)>>
        ELSE <<Literal(fullMatch)>>

\* lastEnd = start + fullMatch.length (234).  LastEndAtStart is the faulty
\* variant that leaves lastEnd where the match starts
LastEndAtStart(start, fullMatch) == start

LastEnd(start, fullMatch) == start + Len(fullMatch)

\* allMatches.forEach(...) and the remaining text (175-247)
RECURSIVE Components(_, _, _, _, _)
Components(text, blocks, ms, k, lastEnd) ==
    IF k > Len(ms)
    THEN IF lastEnd < Len(text)
         THEN <<Literal(Slice(text, lastEnd + 1, Len(text)))>>
         ELSE <<>>
    ELSE LET fullMatch == Slice(text, ms[k].index, ms[k].last)
             start     == ms[k].index - 1
             before    == IF start > lastEnd
                          THEN <<Literal(Slice(text, lastEnd + 1, start))>>
                          ELSE <<>>
         IN  before \o Resolved(blocks, fullMatch, ms[k].isBlock)
                \o Components(text, blocks, ms, k + 1, LastEnd(start, fullMatch))

\* the mixed content path (154-249)
MixedContent(text, blocks) ==
    LET allMatches == ExecAll("LATEXBLOCK", TRUE, text, 1)
                         \o ExecAll("LATEXINLINE", FALSE, text, 1)
    IN  Elem("span", "", <<>>,
             Components(text, blocks, SortByIndex(allMatches), 1, 0), FALSE)

RenderText(text, blocks) ==
    IF ~Test("LATEXBLOCK", text) /\ ~Test("LATEXINLINE", text)
    THEN Literal(text)
    ELSE IF SingleMatch("LATEXBLOCK", text) /\ Find(blocks, text) # 0
    THEN Math(blocks[Find(blocks, text)].content, TRUE)
    ELSE IF SingleMatch("LATEXINLINE", text) /\ Find(blocks, text) # 0
    THEN Math(blocks[Find(blocks, text)].content, FALSE)
    ELSE MixedContent(text, blocks)

(***************************************************************************)
(* The composite handlers (markdown.tsx 252-518).  Their children are the  *)
(* array of rendered nodes the parser has collected.                       *)
(***************************************************************************)
HostTags ==
    {"span", "p", "div", "blockquote", "ol", "ul", "li", "a", "table", "thead",
     "tbody", "tr", "th", "td", "h1", "h2", "h3", "h4", "h5", "h6"}

HeadingTags == <<"h1", "h2", "h3", "h4", "h5", "h6">>
sizeClasses == <<"text-3xl", "text-2xl", "text-xl", "text-lg", "text-base", "text-sm">>

\* (child.type as any)?.displayName || (child.type as any)?.name
componentName(child) == IF child.type \in HostTags THEN "undefined" ELSE child.type

\* React.Children.toArray(children).some(... componentName === "Latex")
hasLatexComponent(elems) ==
    \E k \in DOMAIN elems : componentName(elems[k]) = "Latex"

\* <WordByWordFadeIn>{children}</WordByWordFadeIn>
Wrap(elems) == Elem("WordByWordFadeIn", "", <<>>, elems, FALSE)

\* hasLatexComponent ? children : <WordByWordFadeIn>{children}</WordByWordFadeIn>;
\* RevealOrRawNever is the faulty variant that never wraps
RevealOrRawNever(elems) == elems

RevealOrRaw(elems) ==
    IF hasLatexComponent(elems) THEN elems ELSE <<Wrap(elems)>>

\* a children value: a string, or an array of rendered nodes
ArrayNode(elems) == [isString |-> FALSE, str |-> <<>>, elems |-> elems]

paragraph(ch, blocks) ==
    IF /\ ch.isString
       /\ SingleMatch("LATEXBLOCK", ch.str)
       /\ Find(blocks, ch.str) # 0
       /\ blocks[Find(blocks, ch.str)].isBlock
    THEN Elem("div", "my-6 text-center", <<>>,
              <<Math(blocks[Find(blocks, ch.str)].content, TRUE)>>, FALSE)
    ELSE Elem("p", "leading-6 my-4 break-words", ch.str, ch.elems, FALSE)

blockquote(elems) ==
    Elem("div", "px-4", <<>>,
         <<Elem("blockquote", "relative bg-accent/30 p-6 rounded-2xl my-6 overflow-hidden border",
                <<>>, RevealOrRaw(elems), FALSE)>>, FALSE)

list(elems, ordered) ==
    Elem(IF ordered THEN "ol" ELSE "ul", "px-8 list-decimal list-outside", <<>>, elems, FALSE)

listItem(elems) == Elem("li", "py-2 break-words", <<>>, RevealOrRaw(elems), FALSE)

strong(elems) == Elem("span", "font-semibold", <<>>, RevealOrRaw(elems), FALSE)

link(elems) ==
    Elem("a", "text-primary hover:underline flex gap-1.5 items-center", <<>>,
         <<Elem("LinkIcon", "size-3.5", <<>>, <<>>, FALSE)>> \o RevealOrRaw(elems), FALSE)

heading(elems, level) ==
    Elem(HeadingTags[level], sizeClasses[level] \o " font-semibold mt-6 mb-2", <<>>,
         RevealOrRaw(elems), FALSE)

table(elems) ==
    Elem("div", "overflow-x-auto my-6", <<>>,
         <<Elem("table", "min-w-full border-collapse border border-border rounded-lg",
                <<>>, elems, FALSE)>>, FALSE)

tableHeader(elems) == Elem("thead", "bg-muted/50", <<>>, elems, FALSE)

tableBody(elems) == Elem("tbody", "", <<>>, elems, FALSE)

tableRow(elems) ==
    Elem("tr", "border-b border-border hover:bg-muted/30 transition-colors", <<>>, elems, FALSE)

tableCell(elems, isHeader) ==
    Elem(IF isHeader THEN "th" ELSE "td",
         IF isHeader
         THEN "border border-border px-4 py-3 text-left font-semibold bg-muted/30"
         ELSE "border border-border px-4 py-2",
         <<>>, RevealOrRaw(elems), FALSE)

(***************************************************************************)
(* <Marked renderer={renderer}>{processedContent}</Marked> (527): the      *)
(* parser hands renderer.text the text runs of the substituted text, here  *)
(* the whole text or one of its lines, collects what it returns, and       *)
(* calls a composite handler with the collected children.                  *)
(***************************************************************************)
\* the text runs of s, as <<first offset, last offset>>: one line, or
\* several lines in a row, from the start of a line to the end of a line,
\* without a line break at either end
Runs(s) ==
    {ij \in (1..Len(s)) \X (1..Len(s)) :
        /\ ij[1] <= ij[2]
        /\ ij[1] = 1 \/ s[ij[1] - 1] = NL
        /\ ij[2] = Len(s) \/ s[ij[2] + 1] = NL
        /\ s[ij[1]] # NL /\ s[ij[2]] # NL}

\* parseInline: renderer.text(token.text) for the next text run, somewhere
\* after the last one; its result joins the children collected for the
\* node being built, or starts the children of a new node
Text(i, j) ==
    /\ Extracted
    /\ i > cursor
    /\ cursor' = j
    /\ leaf' = Slice(processedContent, i, j)
    /\ out' = RenderText(leaf', latexBlocks)
    /\ kids' = IF handler # "none" THEN <<out'>> ELSE Append(kids, out')
    /\ handler' = "none"
    /\ node' = Null
    /\ UNCHANGED <<children, processedContent, latexBlocks, emitted, pass,
                   memoVars, revealVars, uploadVars>>

\* a handler of inline content is called with the collected children
Inline(name, result) ==
    /\ Extracted
    /\ handler = "none"
    /\ kids # <<>>
    /\ handler' = name
    /\ node' = result
    /\ UNCHANGED <<children, processedContent, latexBlocks, emitted, pass,
                   cursor, leaf, out, kids, memoVars, revealVars, uploadVars>>

\* a handler of block content is called with the node a handler in
\* `inner` has just returned
Outer(name, inner, result) ==
    /\ Extracted
    /\ handler \in inner
    /\ handler' = name
    /\ kids' = <<node>>
    /\ node' = result
    /\ UNCHANGED <<children, processedContent, latexBlocks, emitted, pass,
                   cursor, leaf, out, memoVars, revealVars, uploadVars>>

Paragraph == Inline("paragraph", paragraph(ArrayNode(kids), latexBlocks))
ListItem == Inline("listItem", listItem(kids))
Strong == Inline("strong", strong(kids))
Link == Inline("link", link(kids))
Heading == \E level \in 1..6 : Inline("heading", heading(kids, level))
TableCell == \E isHeader \in BOOLEAN : Inline("tableCell", tableCell(kids, isHeader))
Blockquote == Outer("blockquote", {"paragraph"}, blockquote(<<node>>))
List == \E ordered \in BOOLEAN : Outer("list", {"listItem"}, list(<<node>>, ordered))
TableRow == Outer("tableRow", {"tableCell"}, tableRow(<<node>>))
TableHeader == handler = "tableRow" /\ node.kids[1].type = "th" /\ Outer("tableHeader", {"tableRow"}, tableHeader(<<node>>))
TableBody == handler = "tableRow" /\ node.kids[1].type = "td" /\ Outer("tableBody", {"tableRow"}, tableBody(<<node>>))
Table == Outer("table", {"tableHeader", "tableBody"}, table(<<node>>))

\* the documents of the full pipeline: math in the four conventions, prose,
\* line breaks and placeholder-shaped words typed by the author
DocFragments ==
    { <<"$", "a", "$">>, <<BS, "[", "b", BS, "]">>, <<"$", "$", "c", "$", "$">>,
      <<BS, "(", "d", BS, ")">>, <<"x", " ">>, <<NL>>,
      <<"LATEXBLOCK", "0", "END">>, <<"LATEXINLINE", "1", "END">> }

\* a placeholder-shaped word alone on a line, and again inside a line
TypedMarkerExample ==
    <<"LATEXBLOCK", "0", "END", NL, "x", " ", "LATEXBLOCK", "0", "END">>

Docs == Concats(DocFragments, MaxDocFrags) \cup {TypedMarkerExample}

Init == InitWith(Docs) /\ NoReveal /\ NoRoute /\ NoClient

Next ==
    \/ ExtractPass
    \/ \E ij \in Runs(processedContent) : Text(ij[1], ij[2])
    \/ Paragraph \/ Blockquote \/ List \/ ListItem \/ Strong \/ Link \/ Heading
    \/ Table \/ TableHeader \/ TableBody \/ TableRow \/ TableCell

Spec == Init /\ [][Next]_vars

(***************************************************************************)
(* WordByWordFadeIn and FadeIn (markdown.tsx 10-56).  The children of an   *)
(* element are a sequence of strings and elements; a string child is a     *)
(* text node.                                                              *)
(***************************************************************************)
Str(s) == Elem("#text", "", s, <<>>, FALSE)

\* isString(child) and React.isValidElement(child)
isString(child) == child.type = "#text"
isValidElement(child) == child.type # "#text"

\* className.includes("katex") || className.includes("math"), over the
\* class names of the model
KatexClassNames == {"katex", "math"}

\* React.Children.toArray(children).some(...) (17-30)
hasLatex(chs) ==
    \E k \in DOMAIN chs :
        /\ isValidElement(chs[k])
        /\ \/ chs[k].className \in KatexClassNames
           \/ componentName(chs[k]) = "Latex"

\* child.split(" ")
RECURSIVE Split(_, _)
Split(s, sep) ==
    LET at == {i \in DOMAIN s : s[i] = sep}
    IN  IF at = {} THEN <<s>>
        ELSE <<SubSeq(s, 1, Min(at) - 1)>> \o Split(SubSeq(s, Min(at) + 1, Len(s)), sep)

\* the flatMap callback (39): isString(child) ? child.split(" ") : child.
\* FlatMapChildSplitAll is the faulty variant that splits the text of
\* every child, elements too
FlatMapChildSplitAll(child) ==
    LET words == Split(child.text, " ")
    IN  [k \in DOMAIN words |-> Str(words[k])]

FlatMapChild(child) ==
    IF isString(child)
    THEN LET words == Split(child.text, " ")
         IN  [k \in DOMAIN words |-> Str(words[k])]
    ELSE <<child>>

\* [children].flat().flatMap(...)
RECURSIVE FlatMap(_)
FlatMap(chs) ==
    IF chs = <<>> THEN <<>> ELSE FlatMapChild(chs[1]) \o FlatMap(Tail(chs))

\* what <FadeIn>{children}</FadeIn> renders (10-12): the word and a space
FadeIn(word) == Elem("span", "fade-in animate-in duration-1000", word \o <<" ">>, <<>>, FALSE)

\* childrens.map(...) (43-53): a word in a FadeIn, an element as it is
\* (cloned with a key)
MapWord(word) == IF isString(word) THEN FadeIn(word.text) ELSE word

WordByWordFadeIn(chs) ==
    IF hasLatex(chs) THEN chs
    ELSE LET childrens == FlatMap(chs)
         IN  [k \in DOMAIN childrens |-> MapWord(childrens[k])]

\* the children WordByWordFadeIn is given: one string (renderer.text), or
\* the rendered children of a composite node, with strings among them
WordStrings ==
    Concats({<<"a">>, <<" ">>, <<TAB>>, <<NL>>}, MaxWordLen) \ {<<>>}

ChildItems ==
    { Str(<<"a", " ", "b">>), Str(<<"x", " ">>), Str(<<"c">>),
      Math(<<"$", "a", "$">>, FALSE),
      Literal(<<"x", " ">>),
      Elem("span", "", <<>>, <<Literal(<<"x", " ">>), Math(<<"$", "a", "$">>, FALSE)>>, FALSE),
      strong(<<Literal(<<"y", " ", "z">>)>>),
      Elem("span", "katex", <<>>, <<>>, FALSE) }

RevealInputs ==
    {<<Str(s)>> : s \in WordStrings}
        \cup (Concats({<<c>> : c \in ChildItems}, MaxItems) \ {<<>>})

\* React renders the WordByWordFadeIn element
Reveal ==
    /\ ~shown.done
    /\ props # <<>>
    /\ shown' = [units |-> WordByWordFadeIn(props), done |-> TRUE]
    /\ UNCHANGED <<children, processedContent, latexBlocks, emitted, pass,
                   cursor, leaf, out, kids, handler, node, memoVars, props,
                   uploadVars>>

RevealInit ==
    /\ InitWith({<<>>}) /\ props \in RevealInputs /\ shown = NotShown
    /\ NoRoute /\ NoClient
RevealNext == Reveal
RevealSpec == RevealInit /\ [][RevealNext]_vars

(***************************************************************************)
(* The parent renders <Markdown> again (markdown.tsx 534-537, 60-98).      *)
(***************************************************************************)
\* const latexBlocks = [] (62-66): the callback starts with a new array,
\* whatever the run before has stored.  KeptStore is the faulty variant
\* that goes on with the array of the run before
KeptStore(previous) == previous

NewStore(previous) == <<>>

\* memo(NonMemoizedMarkdown, (prevProps, nextProps) =>
\*    prevProps.children === nextProps.children): TRUE skips the render.
\* arePropsEqualAlways is the faulty variant that always skips it
arePropsEqualAlways(prevChildren, nextChildren) == TRUE

arePropsEqual(prevChildren, nextChildren) == prevChildren = nextChildren

\* useMemo(..., [children]): the stored dependency list against the new one
depsChanged(prevDeps, nextDeps) == prevDeps # nextDeps

\* the texts the parent passes in: prose, one span, two spans of both
\* kinds, a span inside prose, and another single span
RenderTexts ==
    { <<"x", " ">>,
      <<"$", "a", "$">>,
      <<"$", "a", "$", BS, "[", "b", BS, "]">>,
      <<"x", " ", BS, "(", "d", BS, ")">>,
      <<"$", "$", "c", "$", "$">> }

\* one render with the children prop `text`: skipped by memo when the prop
\* is the one of the render before; otherwise the component body runs, and
\* useMemo runs its callback again when the dependency list has changed
Render(text) ==
    /\ Extracted
    /\ renders < MaxRenders
    /\ renders' = renders + 1
    /\ children' = text
    /\ IF arePropsEqual(children, text)
       THEN UNCHANGED <<processedContent, latexBlocks, emitted, pass,
                        cursor, leaf, out, kids, handler, node, deps, log>>
       ELSE /\ cursor' = 0
            /\ leaf' = <<>>
            /\ out' = Null
            /\ kids' = <<>>
            /\ handler' = "none"
            /\ node' = Null
            /\ IF depsChanged(deps, <<text>>)
               THEN /\ deps' = <<text>>
                    /\ processedContent' = text      \* let modifiedContent = children
                    /\ latexBlocks' = NewStore(latexBlocks)
                    /\ emitted' = <<>>
                    /\ pass' = 0
                    /\ log' = Append(log, [input  |-> children,
                                           text   |-> processedContent,
                                           blocks |-> latexBlocks,
                                           ids    |-> emitted])
               ELSE UNCHANGED <<processedContent, latexBlocks, emitted, pass,
                                deps, log>>
    /\ UNCHANGED <<revealVars, uploadVars>>

RenderInit == InitWith(RenderTexts) /\ NoReveal /\ NoRoute /\ NoClient
RenderNext == Next \/ \E text \in RenderTexts : Render(text)
RenderSpec == RenderInit /\ [][RenderNext]_vars

(***************************************************************************)
(* POST /api/upload (route.ts 5-68).  A request is the session it comes    *)
(* with and its form data; its handler runs from one await to the next,    *)
(* and two requests interleave at the awaits.                              *)
(***************************************************************************)
\* const maxSize = 10 * 1024 * 1024
maxSize == 10 * 1024 * 1024

allowedTypes ==
    <<"image/jpeg", "image/jpg", "image/png", "image/gif", "image/webp",
      "image/svg+xml">>

\* array.includes(x)
includes(array, x) == \E k \in DOMAIN array : array[k] = x

\* NextResponse.json({ error }, { status }); the response of line 56 has
\* no error and the status 200
Json(status, error) == [status |-> status, error |-> error]

NoResponse == Json(0, "")

\* file.name.split(".").pop()
fileExtension(name) ==
    LET parts == Split(name, ".") IN parts[Len(parts)]

\* `${session.user.id}-${timestamp}.${fileExtension}`
filename(userId, timestamp, name) ==
    userId \o <<"-">> \o ToDigits(timestamp) \o <<".">> \o fileExtension(name)

\* the checks on the form data (16-44): the response of the first one that
\* fails, NoResponse when none does.  form is <<>> when formData.get("file")
\* is null.  RejectionTypeFirst is the faulty variant that looks at the type
\* before the size
RejectionTypeFirst(form) ==
    IF form = <<>> THEN Json(400, "No file provided")
    ELSE IF ~includes(allowedTypes, form[1].type)
    THEN Json(400, "Only image files are supported")
    ELSE IF form[1].size > maxSize
    THEN Json(400, "File size must be less than 10MB")
    ELSE NoResponse

Rejection(form) ==
    IF form = <<>> THEN Json(400, "No file provided")
    ELSE IF form[1].size > maxSize
    THEN Json(400, "File size must be less than 10MB")
    ELSE IF ~includes(allowedTypes, form[1].type)
    THEN Json(400, "Only image files are supported")
    ELSE NoResponse

\* the two requests that are in flight together
Requests == {"first", "second"}

\* session?.user.id: <<>> when there is no session or no id in it
UserIds == {<<>>, <<"u">>, <<"v">>}

\* the files a form can hold: at the size limit and one byte over it, an
\* image and another type, two names with one extension and a name with
\* no dot in it
Files ==
    [name : {<<"a", ".", "p", "n", "g">>, <<"b", ".", "p", "n", "g">>, <<"c">>},
     size : {maxSize, maxSize + 1},
     type : {"image/png", "text/plain"}]

Forms == {<<>>} \cup {<<file>> : file \in Files}

NewRequest(userId, form) ==
    [user |-> userId, form |-> form, pc |-> "getSession",
     response |-> NoResponse, thrown |-> FALSE]

\* return NextResponse.json(...)
Respond(r, response, thrown) ==
    reqs' = [reqs EXCEPT ![r] = [@ EXCEPT !.pc = "done",
                                          !.response = response,
                                          !.thrown = thrown]]

\* catch (error) (61-67)
Caught(r) == Respond(r, Json(500, "Failed to upload file"), TRUE)

\* the server's clock advances by a millisecond
Tick ==
    /\ now < MaxClock
    /\ now' = now + 1
    /\ UNCHANGED <<reqs, puts, markdownVars, clientVars>>

\* await getSession() and the check of the session (7-11)
GetSession(r) ==
    /\ reqs[r].pc = "getSession"
    /\ \E throws \in BOOLEAN :
           IF throws THEN Caught(r)
           ELSE IF reqs[r].user = <<>>
           THEN Respond(r, Json(401, "Unauthorized"), FALSE)
           ELSE reqs' = [reqs EXCEPT ![r].pc = "formData"]
    /\ UNCHANGED <<now, puts, markdownVars, clientVars>>

\* await request.formData(), the checks, the file name and the call of
\* put (13-54)
FormData(r) ==
    /\ reqs[r].pc = "formData"
    /\ \E throws \in BOOLEAN :
           IF throws THEN Caught(r) /\ puts' = puts
           ELSE IF Rejection(reqs[r].form) # NoResponse
           THEN Respond(r, Rejection(reqs[r].form), FALSE) /\ puts' = puts
           ELSE /\ reqs' = [reqs EXCEPT ![r].pc = "put"]
                /\ puts' = Append(puts,
                       [req      |-> r,
                        filename |-> filename(reqs[r].user, now,
                                              reqs[r].form[1].name)])
    /\ UNCHANGED <<now, markdownVars, clientVars>>

\* put settles, and the response with the blob's url (52-60)
Put(r) ==
    /\ reqs[r].pc = "put"
    /\ \E throws \in BOOLEAN :
           IF throws THEN Caught(r)
           ELSE Respond(r, Json(200, ""), FALSE)
    /\ UNCHANGED <<now, puts, markdownVars, clientVars>>

UploadInit ==
    /\ InitWith({<<>>}) /\ NoReveal /\ NoClient
    /\ reqs \in [Requests -> {NewRequest(userId, form) :
                                  userId \in UserIds, form \in Forms}]
    /\ now = 0
    /\ puts = <<>>

UploadNext ==
    \/ Tick
    \/ \E r \in Requests : GetSession(r)
    \/ \E r \in Requests : FormData(r)
    \/ \E r \in Requests : Put(r)

UploadSpec == UploadInit /\ [][UploadNext]_vars

(***************************************************************************)
(* useFileUpload (route.ts 79-194) and PromptInput (file-upload.tsx        *)
(* 180-472).  An event handler, and the continuation of an await, runs to  *)
(* its next await without another one in between; React renders before     *)
(* the next event, so a handler sees the props and the store as they are.  *)
(***************************************************************************)
\* the two instances of the hook: FileUploadComponent's (file-upload.tsx
\* 20), which the file dialog uses, and PromptInput's (228), which paste
\* uses
Instances == {"select", "paste"}

\* the files the browser hands over: an image at the size limit, one over
\* it, and an image type that is not among the allowed ones
ClientFiles ==
    { [size |-> maxSize,     type |-> "image/png"],
      [size |-> maxSize + 1, type |-> "image/png"],
      [size |-> maxSize,     type |-> "image/bmp"] }

FileLists == Concats({<<file>> : file \in ClientFiles}, MaxCalls) \ {<<>>}

\* the two checks of uploadFile (route.ts 87-107) let the file through
Validated(file) ==
    /\ ~(file.size > maxSize)
    /\ includes(allowedTypes, file.type)

\* uploadFile up to its first await (82-115): a file that fails a check
\* has returned null, and its finally has run; the others wait for fetch
StartCall(inst, batch, file) ==
    [inst |-> inst, batch |-> batch, file |-> file,
     pc |-> IF Validated(file) THEN "fetch" ELSE "done", result |-> <<>>]

\* what is left of a call when the Promise.all it belongs to has settled
\* and its caller has gone on: nothing but that it was made
Settled == [inst |-> "", batch |-> 0, file |-> [size |-> 0, type |-> ""],
            pc |-> "done", result |-> <<>>]

\* the value of `uploading` after files.map(uploadFile): every call sets
\* it (85), and a call that returns before its await sets it back (134)
RECURSIVE AfterMap(_, _)
AfterMap(flag, files) ==
    IF files = <<>> THEN flag
    ELSE AfterMap(IF Validated(files[1]) THEN TRUE ELSE FALSE, Tail(files))

\* handleFileSelect (file-upload.tsx 22-25) with uploadFiles (route.ts
\* 140-143), and handlePaste (file-upload.tsx 297-315) with
\* readFromClipboard (route.ts 152-177), up to Promise.all: the calls of
\* uploadFile for the files, in their order
StartUploads(inst, files) ==
    /\ Len(calls) + Len(files) <= MaxCalls
    /\ LET started == [k \in DOMAIN files |->
                           StartCall(inst, Len(calls) + 1, files[k])]
       IN  calls' = calls \o
                    IF \A k \in DOMAIN started : started[k].pc = "done"
                    THEN [k \in DOMAIN files |-> Settled]
                    ELSE started
    /\ uploading' = [uploading EXCEPT ![inst] = AfterMap(@, files)]
    /\ UNCHANGED <<uploadedFiles, input, isLoading, toolMentionItems, messages,
                   markdownVars, routeVars>>

HandleFileSelect(files) == StartUploads("select", files)

HandlePaste(files) == StartUploads("paste", files)

\* { url: data.url, type: file.type, size: file.size } (route.ts 124-128);
\* the url the server returns for the k-th call stands as k
UploadedFile(k, file) == [url |-> k, type |-> file.type, size |-> file.size]

\* results.filter(result => result !== null) (route.ts 145-147, 179-181)
RECURSIVE NotNull(_, _)
NotNull(cs, ks) ==
    IF ks = {} THEN <<>>
    ELSE cs[Min(ks)].result \o NotNull(cs, ks \ {Min(ks)})

\* the fetch of call k settles (route.ts 112-135): ok is response.ok, and
\* a fetch that throws ends as one that is not ok.  When it was the last
\* of its Promise.all, the caller goes on (file-upload.tsx 25-28, 315-320)
\* and appends the results to the store (368-372, 317-319)
Settle(k, ok) ==
    /\ calls[k].pc = "fetch"
    /\ LET after   == [calls EXCEPT
                          ![k].pc = "done",
                          ![k].result = IF ok THEN <<UploadedFile(k, calls[k].file)>>
                                              ELSE <<>>]
           batch   == {j \in DOMAIN calls : calls[j].batch = calls[k].batch}
           results == NotNull(after, batch)
           allDone == \A j \in batch : after[j].pc = "done"
       IN  /\ calls' = IF allDone
                       THEN [j \in DOMAIN calls |->
                                IF j \in batch THEN Settled ELSE calls[j]]
                       ELSE after
           /\ uploading' = [uploading EXCEPT ![calls[k].inst] = FALSE]
           /\ uploadedFiles' =
                  IF allDone /\ Len(results) > 0
                  THEN uploadedFiles \o results
                  ELSE uploadedFiles
    /\ UNCHANGED <<input, isLoading, toolMentionItems, messages,
                   markdownVars, routeVars>>

\* onRemove of FilePreview (file-upload.tsx 344-350)
OnRemove(index) ==
    /\ index \in DOMAIN uploadedFiles
    /\ uploadedFiles' = [k \in 1..(Len(uploadedFiles) - 1) |->
                             IF k < index THEN uploadedFiles[k]
                                          ELSE uploadedFiles[k + 1]]
    /\ UNCHANGED <<uploading, calls, input, isLoading, toolMentionItems,
                   messages, markdownVars, routeVars>>

\* what the user types: nothing, white space, a word with spaces around it
InputTexts == {<<>>, <<" ", NL>>, <<" ", "h", " ">>}

\* onChange={setInput} (357)
SetInput(text) ==
    /\ text # input
    /\ input' = text
    /\ UNCHANGED <<uploading, calls, uploadedFiles, isLoading,
                   toolMentionItems, messages, markdownVars, routeVars>>

\* onChangeMention={setToolMentionItems} (358)
MentionLists == {<<>>, <<"tool">>}

OnChangeMention(items) ==
    /\ items # toolMentionItems
    /\ toolMentionItems' = items
    /\ UNCHANGED <<uploading, calls, uploadedFiles, input, isLoading,
                   messages, markdownVars, routeVars>>

\* the parent changes the isLoading prop
SetLoading ==
    /\ isLoading' = ~isLoading
    /\ UNCHANGED <<uploading, calls, uploadedFiles, input, toolMentionItems,
                   messages, markdownVars, routeVars>>

\* s.trim()
TrimmedChars == {" ", TAB, NL}

trim(s) ==
    LET at == {i \in DOMAIN s : s[i] \notin TrimmedChars}
    IN  IF at = {} THEN <<>>
        ELSE SubSeq(s, Min(at), CHOOSE i \in at : \A j \in at : j <= i)

\* uploadedFiles.map(file => ({ url, contentType, size })) (273-277).
\* attachmentsOfFirst is the faulty variant that attaches one file only
attachmentsOfFirst(files) ==
    [k \in DOMAIN files \cap {1} |->
        [url |-> files[k].url, contentType |-> files[k].type, size |-> files[k].size]]

attachmentsOf(files) ==
    [k \in DOMAIN files |->
        [url |-> files[k].url, contentType |-> files[k].type, size |-> files[k].size]]

\* the two returns at the head of submit (261-263)
returnsEarly(loading, userMessage, files) ==
    loading \/ (Len(userMessage) = 0 /\ Len(files) = 0)

\* submit (260-295)
Submit ==
    /\ Len(messages) < MaxMessages
    /\ LET userMessage == trim(input)
           annotations == IF Len(toolMentionItems) > 0
                          THEN <<[mentions |-> toolMentionItems]>>
                          ELSE <<>>
       IN  IF returnsEarly(isLoading, userMessage, uploadedFiles)
           THEN UNCHANGED <<uploadedFiles, input, toolMentionItems, messages>>
           ELSE /\ toolMentionItems' = <<>>
                /\ uploadedFiles' = <<>>
                /\ input' = <<>>
                /\ messages' = Append(messages,
                       [role        |-> "user",
                        content     |-> <<>>,
                        annotations |-> annotations,
                        experimental_attachments |-> attachmentsOf(uploadedFiles),
                        parts       |-> <<[type |-> "text", text |-> userMessage]>>])
    /\ UNCHANGED <<uploading, calls, isLoading, markdownVars, routeVars>>

ClientInit == InitWith({<<>>}) /\ NoReveal /\ NoRoute /\ NoClient

ClientNext ==
    \/ \E files \in FileLists : HandleFileSelect(files)
    \/ \E files \in FileLists : HandlePaste(files)
    \/ \E k \in DOMAIN calls, ok \in BOOLEAN : Settle(k, ok)
    \/ \E index \in DOMAIN uploadedFiles : OnRemove(index)
    \/ \E text \in InputTexts : SetInput(text)
    \/ \E items \in MentionLists : OnChangeMention(items)
    \/ SetLoading
    \/ Submit

ClientSpec == ClientInit /\ [][ClientNext]_vars

(***************************************************************************)
(* What a text holds, stated on the text itself (not by running the        *)
(* scanner).                                                               *)
(***************************************************************************)
\* left ... right with the closer after the opener
HoldsPair(s, left, right) ==
    \E i, j \in 1..Len(s) :
        /\ HasAt(s, i, left)
        /\ HasAt(s, j, right)
        /\ j >= i + Len(left)

\* $ ... $ on one line, with something between and no { or # after the opener
HoldsDollarSpan(s) ==
    \E i, j \in 1..Len(s) :
        /\ s[i] = "$" /\ s[j] = "$" /\ j >= i + 2
        /\ s[i + 1] \notin {"{", "#"}
        /\ \A k \in (i + 1)..(j - 1) : s[k] \notin {"$", NL}

HoldsMath(s) ==
    \/ HoldsPair(s, <<BS, "[">>, <<BS, "]">>)
    \/ HoldsPair(s, <<"$", "$">>, <<"$", "$">>)
    \/ HoldsPair(s, <<BS, "(">>, <<BS, ")">>)
    \/ HoldsDollarSpan(s)

Ids == {latexBlocks[j].id : j \in DOMAIN latexBlocks}

\* the placeholder-shaped words of s, as <<first offset, last offset>>
MarkerSpans(s) ==
    {ij \in (1..Len(s)) \X (1..Len(s)) :
        /\ s[ij[1]] \in {"LATEXBLOCK", "LATEXINLINE"}
        /\ s[ij[2]] = "END"
        /\ ij[2] >= ij[1] + 2
        /\ \A k \in (ij[1] + 1)..(ij[2] - 1) : IsDigit(s[k])}

IsMarkerToken(t) == Len(t) > 0 /\ <<1, Len(t)>> \in MarkerSpans(t)

\* the span a token stands for in a store, when it has one
SpanOf(blocks, token) ==
    blocks[CHOOSE j \in DOMAIN blocks :
              /\ blocks[j].id = token
              /\ \A h \in DOMAIN blocks : blocks[h].id = token => j <= h]

\* s from offset pos on, read left to right: the text before each
\* placeholder, then what the placeholder stands for, then the rest
RECURSIVE InDocumentOrder(_, _, _)
InDocumentOrder(s, blocks, pos) ==
    LET later == {ij \in MarkerSpans(s) : ij[1] >= pos}
    IN  IF later = {}
        THEN IF pos <= Len(s) THEN <<Literal(Slice(s, pos, Len(s)))>> ELSE <<>>
        ELSE LET m     == CHOOSE ij \in later : \A o \in later : ij[1] <= o[1]
                 token == Slice(s, m[1], m[2])
                 gap   == IF m[1] > pos
                          THEN <<Literal(Slice(s, pos, m[1] - 1))>>
                          ELSE <<>>
                 unit  == IF \E j \in DOMAIN blocks : blocks[j].id = token
                          THEN Math(SpanOf(blocks, token).content,
                                    s[m[1]] = "LATEXBLOCK")
                          ELSE Literal(token)
             IN  gap \o <<unit>> \o InDocumentOrder(s, blocks, m[2] + 1)

\* the render units of what renderer.text returned
Units(o) == IF o.type = "span" THEN o.kids ELSE <<o>>

RECURSIVE ConcatText(_)
ConcatText(us) == IF us = <<>> THEN <<>> ELSE us[1].text \o ConcatText(Tail(us))

\* a rendered child that is a resolved math render: the Latex element of a
\* lone placeholder, or what renderer.text returned for a leaf mixing
\* placeholders with text
IsMathRender(e) ==
    \/ e.type = "Latex"
    \/ /\ e.type = "span" /\ e.className = ""
       /\ \E c \in DOMAIN e.kids : e.kids[c].type = "Latex"

\* a rendered node with a typeset math fragment somewhere in it
RECURSIVE ContainsMath(_)
ContainsMath(e) ==
    \/ e.type = "Latex"
    \/ \E c \in DOMAIN e.kids : ContainsMath(e.kids[c])

\* where a composite node holds its children
Slot(h, n) ==
    IF h \in {"blockquote", "table"} THEN n.kids[1].kids
    ELSE IF h = "link" THEN Tail(n.kids)
    ELSE n.kids

CheckingHandlers == {"blockquote", "listItem", "strong", "link", "heading", "tableCell"}
PlainHandlers == {"paragraph", "list", "table", "tableHeader", "tableBody", "tableRow"}

\* a text without any delimiter character
IsProse(s) == \A k \in DOMAIN s : s[k] \notin {"$", BS}

\* one well-formed math span and nothing else
IsMathSpan(w) ==
    LET body(l, r) == Slice(w, Len(l) + 1, Len(w) - Len(r))
        pair(l, r) == /\ Len(w) >= Len(l) + Len(r)
                      /\ HasAt(w, 1, l)
                      /\ HasAt(w, Len(w) - Len(r) + 1, r)
                      /\ IsProse(body(l, r))
    IN  \/ pair(<<BS, "[">>, <<BS, "]">>)
        \/ pair(<<"$", "$">>, <<"$", "$">>)
        \/ pair(<<BS, "(">>, <<BS, ")">>)
        \/ /\ pair(<<"$">>, <<"$">>)
           /\ Len(w) >= 3
           /\ w[2] \notin {"{", "#"}
           /\ \A k \in DOMAIN w : w[k] # NL

IsBlockSpan(w) == HasAt(w, 1, <<BS, "[">>) \/ HasAt(w, 1, <<"$", "$">>)

\* the <<first, last>> offsets at which s is prose, one math span, prose
OneSpanAt(s) ==
    {ij \in (1..Len(s)) \X (1..Len(s)) :
        /\ ij[1] <= ij[2]
        /\ IsProse(Slice(s, 1, ij[1] - 1))
        /\ IsMathSpan(Slice(s, ij[1], ij[2]))
        /\ IsProse(Slice(s, ij[2] + 1, Len(s)))}

(***************************************************************************)
(* C1: every marker token the extractor has put into the text has exactly  *)
(* one span in the store whose id is that token (at every pattern          *)
(* boundary, so also when the extraction has completed).                   *)
(***************************************************************************)
C1_EmittedMarkerHasOneSpan ==
    \A k \in DOMAIN emitted :
        Cardinality({j \in DOMAIN latexBlocks : latexBlocks[j].id = emitted[k]}) = 1

C1_Witness ==
    /\ Extracted
    /\ \E k, m \in DOMAIN emitted :
          /\ emitted[k][1] = "LATEXBLOCK"
          /\ emitted[m][1] = "LATEXINLINE"
          /\ IsSubstring(emitted[m], processedContent)

(***************************************************************************)
(* C2: every stored span's content is a contiguous piece of the raw text.  *)
(* The code breaks this when delimiters nest: "$\[a\]$" stores the inline  *)
(* span "$LATEXBLOCK0END$".                                                *)
(***************************************************************************)
C2_RawContentVerbatim ==
    Extracted =>
        \A j \in DOMAIN latexBlocks : IsSubstring(latexBlocks[j].content, children)

C4_BlockBeforeInline ==
    /\ (pass < NPasses /\ PatternOfPass(pass + 1).pattern.shape = "dollar")
          => ~HoldsPair(processedContent, <<"$", "$">>, <<"$", "$">>)
    /\ (children = PrecedenceExample /\ Extracted)
          => /\ latexBlocks =
                  << [id |-> <<"LATEXBLOCK", "0", "END">>,
                      content |-> <<"$", "$", " ", "a", " ", "$", "$">>,
                      isBlock |-> TRUE],
                     [id |-> <<"LATEXINLINE", "1", "END">>,
                      content |-> <<"$", " ", "b", " ", "$">>,
                      isBlock |-> FALSE] >>
             /\ processedContent =
                  <<"LATEXBLOCK", "0", "END", " ", "a", "n", "d", " ",
                    "LATEXINLINE", "1", "END">>

C4_Witness == children = PrecedenceExample /\ Extracted /\ Len(latexBlocks) = 2

(***************************************************************************)
(* C5: ordering.  For a leaf text that holds placeholders, renderer.text   *)
(* returns its units in document order: the text before each placeholder   *)
(* (when there is some), the placeholder's unit, and the text after the    *)
(* last placeholder as a final literal unit.                               *)
(***************************************************************************)
C5_DocumentOrder ==
    (out # Null /\ MarkerSpans(leaf) # {})
        => Units(out) = InDocumentOrder(leaf, latexBlocks, 1)

C5_Witness ==
    /\ out # Null
    /\ LET us == Units(out)
       IN  \E k, m, n \in DOMAIN us :
              /\ k < m /\ m < n /\ n = Len(us)
              /\ us[k].type = "Latex" /\ ~us[k].display
              /\ us[m].type = "Latex" /\ us[m].display
              /\ us[n].type = "WordByWordFadeIn"

(***************************************************************************)
(* C6: fallback.  Every placeholder-shaped word of the leaf text that has  *)
(* no span in the store comes out as one literal unit holding exactly that *)
(* word, and nothing else comes out as such a unit; with an empty store    *)
(* the units together hold the leaf text unchanged.                        *)
(***************************************************************************)
C6_FallbackLiteral ==
    out # Null =>
        LET us      == Units(out)
            missing == {ij \in MarkerSpans(leaf) : Slice(leaf, ij[1], ij[2]) \notin Ids}
        IN  /\ \A ij \in missing :
                  \E k \in DOMAIN us : us[k] = Literal(Slice(leaf, ij[1], ij[2]))
            /\ Cardinality({k \in DOMAIN us :
                              us[k].type = "WordByWordFadeIn" /\ IsMarkerToken(us[k].text)})
                  = Cardinality(missing)
            /\ latexBlocks = <<>> => ConcatText(us) = leaf

\* the word alone in a leaf, and the same word inside a longer leaf
C6_Witness ==
    /\ latexBlocks = <<>>
    /\ Len(kids) = 2
    /\ kids[1] = Elem("span", "", <<>>, <<Literal(<<"LATEXBLOCK", "0", "END">>)>>, FALSE)
    /\ out = kids[2]
    /\ Len(leaf) > 3
    /\ \E k \in DOMAIN Units(out) : Units(out)[k] = Literal(<<"LATEXBLOCK", "0", "END">>)

(***************************************************************************)
(* C7: a blockquote, list item, strong, link, heading or table cell with a *)
(* child that is a math render, or that came from a leaf mixing math with  *)
(* text, leaves its children unwrapped.  The code wraps them when the math *)
(* sits inside the <span> renderer.text returns for a mixed leaf.          *)
(***************************************************************************)
C7_MathChildSkipsReveal ==
    (handler \in CheckingHandlers /\ \E k \in DOMAIN kids : IsMathRender(kids[k]))
        => Slot(handler, node) = kids

(***************************************************************************)
(* C8 as claimed: every composite node without math wraps its children in  *)
(* the progressive reveal.  Paragraphs, lists, tables and rows do not.     *)
(***************************************************************************)
C8_EveryProseNodeWrapped ==
    (/\ handler \in CheckingHandlers \cup {"paragraph", "list", "table", "tableRow"}
     /\ \A k \in DOMAIN kids : ~ContainsMath(kids[k]))
        => Slot(handler, node) = <<Wrap(kids)>>

(***************************************************************************)
(* C8 amended: without math among its children, a blockquote, list item,   *)
(* strong, link, heading or table cell wraps its children in the           *)
(* progressive reveal; a paragraph, list, table, table header, table body  *)
(* or table row holds its children as they are.                            *)
(***************************************************************************)
C8_ProseNodeWrapped ==
    (handler # "none" /\ \A k \in DOMAIN kids : ~ContainsMath(kids[k]))
        => /\ handler \in CheckingHandlers => Slot(handler, node) = <<Wrap(kids)>>
           /\ handler \in PlainHandlers => Slot(handler, node) = kids

C8_Witness ==
    /\ handler = "tableCell"
    /\ Len(kids) = 2
    /\ \A k \in DOMAIN kids : ~ContainsMath(kids[k])
    /\ node.kids = <<Wrap(kids)>>

(***************************************************************************)
(* C9: a paragraph whose only child is the math unit of a lone block       *)
(* placeholder is rendered as the centered block element, not as <p>.      *)
(* The code tests typeof children === "string", which the resolved child   *)
(* never is, and renders <p>.                                              *)
(***************************************************************************)
C9_StandaloneBlockCentered ==
    (/\ handler = "paragraph"
     /\ SingleMatch("LATEXBLOCK", leaf)
     /\ kids = <<out>>
     /\ out.type = "Latex" /\ out.display)
        => (node.type = "div" /\ node.className = "my-6 text-center")

(***************************************************************************)
(* C10: a text that holds no math in any of the four conventions comes out *)
(* of the extraction unchanged, with an empty store.                       *)
(***************************************************************************)
C10_NoMathIdentity ==
    (Extracted /\ ~HoldsMath(children))
        => (processedContent = children /\ latexBlocks = <<>>)

C10_Witness ==
    /\ Extracted
    /\ ~HoldsMath(children)
    /\ IsSubstring(<<"$", "$">>, children)
    /\ IsSubstring(<<BS, "[">>, children)
    /\ processedContent = children

(***************************************************************************)
(* C11: determinism.  Two runs of the extraction on the same raw text,     *)
(* each from a new store, give the same substituted text, the same         *)
(* sequence of marker tokens and the same spans (id, content and display   *)
(* mode of each), whatever was rendered in between.                        *)
(***************************************************************************)
\* the completed extractions so far: those of the earlier renders, and the
\* one of this render
Extractions ==
    log \o (IF Extracted
            THEN <<[input  |-> children, text |-> processedContent,
                    blocks |-> latexBlocks, ids |-> emitted]>>
            ELSE <<>>)

C11_Deterministic ==
    \A i, j \in DOMAIN Extractions :
        Extractions[i].input = Extractions[j].input
            => /\ Extractions[i].text = Extractions[j].text
               /\ Extractions[i].ids = Extractions[j].ids
               /\ Len(Extractions[i].blocks) = Len(Extractions[j].blocks)
               /\ Extractions[i].blocks = Extractions[j].blocks

\* the same text extracted twice, with another text with math in between
C11_Witness ==
    /\ Extracted
    /\ Len(latexBlocks) = 2
    /\ \E i, j \in DOMAIN log :
          /\ i < j
          /\ log[i].input = children
          /\ log[j].input # children
          /\ log[j].blocks # <<>>

(***************************************************************************)
(* C12: the sequence numbers of the ids in the store strictly increase in  *)
(* the order the spans were recorded, display and inline spans alike, so   *)
(* no two spans carry the same sequence number, and no two the same id     *)
(* (at every pattern boundary of one extraction).                          *)
(***************************************************************************)
\* the number a run of decimal digits stands for
RECURSIVE ToNumber(_)
ToNumber(ds) ==
    IF ds = <<>> THEN 0
    ELSE 10 * ToNumber(SubSeq(ds, 1, Len(ds) - 1))
            + (CHOOSE d \in 0..9 : DigitChars[d + 1] = ds[Len(ds)])

\* the sequence number of an id: what stands between the word and END
SeqNo(id) == ToNumber(SubSeq(id, 2, Len(id) - 1))

C12_SequenceNumbersIncrease ==
    \A j, k \in DOMAIN latexBlocks :
        j < k => /\ SeqNo(latexBlocks[j].id) < SeqNo(latexBlocks[k].id)
                 /\ latexBlocks[j].id # latexBlocks[k].id

\* both kinds in one store, and a sequence number of two digits
C12_Witness ==
    /\ Extracted
    /\ Len(latexBlocks) > ManySpans
    /\ latexBlocks[1].isBlock /\ ~latexBlocks[2].isBlock
    /\ SeqNo(latexBlocks[Len(latexBlocks)].id) = Len(latexBlocks) - 1

(***************************************************************************)
(* C13: for a leaf text that is exactly one marker token with a span in    *)
(* the store, renderer.text returns what its mixed content path gives for  *)
(* the same text.  The code returns the bare <Latex> element on the        *)
(* shortcut, and a <span> around the same element on the mixed content     *)
(* path, so a parent's hasLatexComponent sees math on the one and none on  *)
(* the other.                                                              *)
(***************************************************************************)
C13_ShortcutEqualsGeneralPath ==
    (out # Null /\ IsMarkerToken(leaf) /\ leaf \in Ids)
        => /\ out = MixedContent(leaf, latexBlocks)
           /\ hasLatexComponent(<<out>>)
                 = hasLatexComponent(<<MixedContent(leaf, latexBlocks)>>)

(***************************************************************************)
(* C14: no re-splitting.  WordByWordFadeIn gives back every child that is  *)
(* not a string as one unit, unmodified, in the order of the children and  *)
(* at its place among the text of the string children; only strings are    *)
(* split into word units.  A math element is therefore never split.        *)
(***************************************************************************)
WhiteSpace == {" ", TAB, NL}

IsFadeInUnit(u) == u.type = "span" /\ u.className = "fade-in animate-in duration-1000"

\* the word a FadeIn unit shows: its text without the space FadeIn adds
WordOf(u) == SubSeq(u.text, 1, Len(u.text) - 1)

\* a sequence of children or of units read as one line: the characters of
\* its strings and words without white space, and each element whole
OfChar(c) == [isElem |-> FALSE, ch |-> c, elem |-> Null]
OfElem(e) == [isElem |-> TRUE, ch |-> "", elem |-> e]

RECURSIVE Chars(_)
Chars(w) ==
    IF w = <<>> THEN <<>>
    ELSE (IF w[1] \in WhiteSpace THEN <<>> ELSE <<OfChar(w[1])>>) \o Chars(Tail(w))

RECURSIVE Skeleton(_)
Skeleton(us) ==
    IF us = <<>> THEN <<>>
    ELSE (IF isString(us[1]) THEN Chars(us[1].text)
          ELSE IF IsFadeInUnit(us[1]) THEN Chars(WordOf(us[1]))
          ELSE <<OfElem(us[1])>>) \o Skeleton(Tail(us))

C14_NoReSplitting ==
    shown.done =>
        /\ Skeleton(shown.units) = Skeleton(props)
        /\ \A k \in DOMAIN shown.units :
              \/ IsFadeInUnit(shown.units[k])
              \/ \E c \in DOMAIN props : props[c] = shown.units[k]

\* text, an element that is not math, text: words on both sides of it
C14_Witness ==
    /\ shown.done
    /\ Len(props) = 2
    /\ isString(props[1]) /\ props[2].type = "WordByWordFadeIn"
    /\ Len(shown.units) = 3
    /\ IsFadeInUnit(shown.units[1]) /\ IsFadeInUnit(shown.units[2])
    /\ shown.units[3] = props[2]

(***************************************************************************)
(* C15: the word units of a text are its words, split at white space: no   *)
(* unit is empty, none holds a space, tab or line break, and they come in  *)
(* the order of the words.  The code splits at each single space only, so  *)
(* "x " gives the units "x" and "", and a tab or line break stays inside a *)
(* unit.                                                                   *)
(***************************************************************************)
\* the words of a text: its maximal runs without white space
RECURSIVE Words(_)
Words(s) ==
    LET starts == {i \in DOMAIN s : s[i] \notin WhiteSpace}
    IN  IF starts = {} THEN <<>>
        ELSE LET i    == Min(starts)
                 ends == {j \in i..Len(s) : j = Len(s) \/ s[j + 1] \in WhiteSpace}
                 j    == Min(ends)
             IN  <<SubSeq(s, i, j)>> \o Words(SubSeq(s, j + 1, Len(s)))

C15_UnitsAreWords ==
    (shown.done /\ Len(props) = 1 /\ isString(props[1]))
        => /\ \A k \in DOMAIN shown.units :
                 /\ IsFadeInUnit(shown.units[k])
                 /\ WordOf(shown.units[k]) # <<>>
                 /\ \A c \in DOMAIN WordOf(shown.units[k]) :
                        WordOf(shown.units[k])[c] \notin WhiteSpace
           /\ [k \in DOMAIN shown.units |-> WordOf(shown.units[k])] = Words(props[1].text)

(***************************************************************************)
(* C16: memoization is only a cache.  Whenever the substituted text and    *)
(* the store are there to be used, they are the extraction of the current  *)
(* raw text; a render with the raw text of the render before runs no       *)
(* extraction (every extraction run is for a raw text other than the one   *)
(* of the run before, and there are no more runs than re-renders).         *)
(***************************************************************************)
C16_MemoIsCache ==
    /\ Extracted => /\ processedContent = Extract(children).text
                    /\ latexBlocks = Extract(children).blocks
    /\ Len(log) <= renders
    /\ \A i \in DOMAIN log :
          log[i].input # (IF i < Len(log) THEN log[i + 1].input ELSE children)

\* one render skipped, one recomputed, and the new pair in use
C16_Witness ==
    /\ Extracted
    /\ renders = 2
    /\ Len(log) = 1
    /\ log[1].blocks # latexBlocks
    /\ out # Null

(***************************************************************************)
(* C17: the store only grows while an extraction runs (what it held stays  *)
(* in place), no later step changes it (renderer.text, the composite       *)
(* handlers, a render with the same raw text), and a new extraction starts *)
(* from the empty store when the raw text has changed: the store holds the *)
(* spans of this extraction only, numbered from 0.                         *)
(***************************************************************************)
IsPrefix(a, b) == Len(a) <= Len(b) /\ SubSeq(b, 1, Len(a)) = a

C17_StoreAppendOnly ==
    /\ [](/\ Len(latexBlocks) = Len(emitted)
          /\ \A j \in DOMAIN latexBlocks :
                /\ latexBlocks[j].id = emitted[j]
                /\ SeqNo(latexBlocks[j].id) = j - 1)
    /\ [][/\ pass' = pass + 1 => IsPrefix(latexBlocks, latexBlocks')
          /\ (Extracted /\ pass' = pass) => latexBlocks' = latexBlocks
          /\ pass' < pass => (latexBlocks' = <<>> /\ children' # children)]_vars

\* after a change of the raw text the store holds the one span of the new
\* text, not the two of the old one, and renderer.text has used it
C17_Witness ==
    /\ Extracted
    /\ log # <<>>
    /\ Len(log[Len(log)].blocks) = 2
    /\ Len(latexBlocks) = 1
    /\ out.type = "Latex"

(***************************************************************************)
(* C18: an opening delimiter without closer gives no span and stays in the *)
(* text.  When the raw text holds no closed pair in any of the four        *)
(* conventions it comes out unchanged, with an empty store; when its only  *)
(* closed pairs lie inside one well-formed span, that span alone is        *)
(* replaced, and the text before and after it, unclosed openers included,  *)
(* comes out unchanged.  The code breaks this for a $ whose only later $   *)
(* is on another line when a display span with the line break stands       *)
(* between them: once the span is replaced the two $ are on one line, and  *)
(* the single-dollar pattern takes them as a span.                         *)
(***************************************************************************)
\* the closed pairs of s, as <<offset of the opener, last offset of the
\* closer>>: left ... right with the closer after the opener, and $ ... $
\* on one line with something between and no { or # after the opener
ClosedPairs(s) ==
    LET lazy(l, r) ==
            {<<i, j + Len(r) - 1>> : <<i, j>> \in
                {ij \in (1..Len(s)) \X (1..Len(s)) :
                    /\ HasAt(s, ij[1], l)
                    /\ HasAt(s, ij[2], r)
                    /\ ij[2] >= ij[1] + Len(l)}}
        dollar ==
            {ij \in (1..Len(s)) \X (1..Len(s)) :
                /\ s[ij[1]] = "$" /\ s[ij[2]] = "$" /\ ij[2] >= ij[1] + 2
                /\ s[ij[1] + 1] \notin {"{", "#"}
                /\ \A k \in (ij[1] + 1)..(ij[2] - 1) : s[k] \notin {"$", NL}}
    IN  lazy(<<BS, "[">>, <<BS, "]">>) \cup lazy(<<"$", "$">>, <<"$", "$">>)
           \cup lazy(<<BS, "(">>, <<BS, ")">>) \cup dollar

\* the offsets of the opening delimiters of s
Openers(s) ==
    {i \in 1..Len(s) :
        s[i] = "$" \/ HasAt(s, i, <<BS, "[">>) \/ HasAt(s, i, <<BS, "(">>)}

\* the <<first, last>> offsets of a well-formed span that holds every
\* closed pair of s
OnlySpanAt(s) ==
    {ab \in (1..Len(s)) \X (1..Len(s)) :
        /\ ab[1] <= ab[2]
        /\ IsMathSpan(Slice(s, ab[1], ab[2]))
        /\ \A ij \in ClosedPairs(s) : ab[1] <= ij[1] /\ ij[2] <= ab[2]}

C18_UnclosedUntouched ==
    Extracted =>
        /\ ClosedPairs(children) = {}
              => (processedContent = children /\ latexBlocks = <<>>)
        /\ \A ab \in OnlySpanAt(children) :
              LET span == Slice(children, ab[1], ab[2])
                  id   == <<(IF IsBlockSpan(span) THEN "LATEXBLOCK" ELSE "LATEXINLINE"),
                            "0", "END">>
              IN  /\ processedContent =
                        Slice(children, 1, ab[1] - 1) \o id
                            \o Slice(children, ab[2] + 1, Len(children))
                  /\ latexBlocks = <<[id |-> id, content |-> span,
                                      isBlock |-> IsBlockSpan(span)]>>

(***************************************************************************)
(* C19: "$$$$", alone or inside prose, is taken as one display span with   *)
(* nothing between its delimiters: the store holds the one span "$$$$",    *)
(* marked as display math, and the text holds one block marker in its      *)
(* place; it is not left in the text and not taken as inline math.         *)
(***************************************************************************)
EmptyBlock == <<"$", "$", "$", "$">>

C19_EmptyBlockSpan ==
    Extracted =>
        \A i \in 1..(Len(children) + 1) :
            (/\ HasAt(children, i, EmptyBlock)
             /\ IsProse(Slice(children, 1, i - 1))
             /\ IsProse(Slice(children, i + Len(EmptyBlock), Len(children))))
                => /\ latexBlocks = <<[id |-> <<"LATEXBLOCK", "0", "END">>,
                                       content |-> EmptyBlock,
                                       isBlock |-> TRUE]>>
                   /\ Slice(latexBlocks[1].content, 3, Len(latexBlocks[1].content) - 2) = <<>>
                   /\ processedContent =
                         Slice(children, 1, i - 1) \o <<"LATEXBLOCK", "0", "END">>
                             \o Slice(children, i + Len(EmptyBlock), Len(children))

C19_Witness ==
    /\ Extracted
    /\ children = EmptyBlock
    /\ processedContent = <<"LATEXBLOCK", "0", "END">>
    /\ Len(latexBlocks) = 1 /\ latexBlocks[1].isBlock

(***************************************************************************)
(* C20: for a leaf text without a marker of either shape renderer.text     *)
(* returns one literal unit that holds the whole leaf text, and returns it *)
(* whatever the store holds.                                               *)
(***************************************************************************)
\* a store with a span of each kind
SomeStore ==
    << [id |-> <<"LATEXBLOCK", "0", "END">>, content |-> <<BS, "[", "b", BS, "]">>,
        isBlock |-> TRUE],
       [id |-> <<"LATEXINLINE", "1", "END">>, content |-> <<"$", "a", "$">>,
        isBlock |-> FALSE] >>

C20_NoMarkerShortCircuit ==
    (out # Null /\ MarkerSpans(leaf) = {})
        => /\ out = Literal(leaf)
           /\ \A store \in {<<>>, latexBlocks, SomeStore} :
                 RenderText(leaf, store) = Literal(leaf)

\* a line of prose in a document whose store holds a span
C20_Witness ==
    /\ out # Null
    /\ MarkerSpans(leaf) = {}
    /\ Len(leaf) >= 2
    /\ latexBlocks # <<>>
    /\ out.type = "WordByWordFadeIn" /\ out.text = leaf

(***************************************************************************)
(* C21: after the extraction every span of the store is referenced by      *)
(* exactly one marker in the substituted text.  The code breaks this both  *)
(* ways: in "$\[a\]$" the block marker is taken into the inline span, so    *)
(* the block span has no marker left in the text, and a marker-shaped word *)
(* typed by the author gives a span a second marker.                       *)
(***************************************************************************)
\* how often the token stands in s
Occurrences(token, s) ==
    Cardinality({ij \in MarkerSpans(s) : Slice(s, ij[1], ij[2]) = token})

C21_OneMarkerPerSpan ==
    Extracted =>
        \A j \in DOMAIN latexBlocks :
            Occurrences(latexBlocks[j].id, processedContent) = 1

(***************************************************************************)
(* C22: the units renderer.text returns, read in order, give back the leaf *)
(* text: each literal unit stands for its own text, which is not empty     *)
(* (a fallback unit for its marker token), each math unit for a marker     *)
(* token of its kind whose span in the store has the unit's content;       *)
(* nothing of the leaf text is left out and nothing is read twice.         *)
(***************************************************************************)
\* the units us can be read off the text s from left to right
RECURSIVE ReadsAs(_, _, _)
ReadsAs(us, s, blocks) ==
    IF us = <<>> THEN s = <<>>
    ELSE IF us[1].type = "WordByWordFadeIn"
    THEN /\ us[1].text # <<>>
         /\ HasAt(s, 1, us[1].text)
         /\ ReadsAs(Tail(us), SubSeq(s, Len(us[1].text) + 1, Len(s)), blocks)
    ELSE /\ us[1].type = "Latex"
         /\ \E e \in 1..Len(s) :
               /\ IsMarkerToken(SubSeq(s, 1, e))
               /\ us[1].display = (s[1] = "LATEXBLOCK")
               /\ \E j \in DOMAIN blocks :
                     /\ blocks[j].id = SubSeq(s, 1, e)
                     /\ blocks[j].content = us[1].text
               /\ ReadsAs(Tail(us), SubSeq(s, e + 1, Len(s)), blocks)

C22_UnitsConserveLeaf ==
    out # Null => ReadsAs(Units(out), leaf, latexBlocks)

\* text, a math unit and a fallback unit from one leaf
C22_Witness ==
    /\ out # Null
    /\ Len(Units(out)) >= 3
    /\ \E k, m, n \in DOMAIN Units(out) :
          /\ k < m
          /\ Units(out)[k].type = "WordByWordFadeIn" /\ ~IsMarkerToken(Units(out)[k].text)
          /\ Units(out)[m].type = "Latex"
          /\ Units(out)[n].type = "WordByWordFadeIn" /\ IsMarkerToken(Units(out)[n].text)


(***************************************************************************)
(* C23: POST /api/upload calls put only for a request whose session has a  *)
(* user id, whose form holds a file, whose file has at most 10MB and an    *)
(* allowed type.  The four checks run in that order and the first that     *)
(* fails ends the request with 401, 400, 400, 400, and without a call of   *)
(* put; a request in which something was thrown ends with 500.             *)
(***************************************************************************)
ImageTypes ==
    {"image/jpeg", "image/jpg", "image/png", "image/gif", "image/webp",
     "image/svg+xml"}

TenMegabytes == 10 * 1024 * 1024

PutsOf(r) == {k \in DOMAIN puts : puts[k].req = r}

Ended(r, status, error) ==
    /\ reqs[r].response = [status |-> status, error |-> error]
    /\ PutsOf(r) = {}

C23_ChecksBeforePut ==
    \A r \in DOMAIN reqs :
        LET q == reqs[r]
        IN  /\ Cardinality(PutsOf(r)) <= 1
            /\ PutsOf(r) # {} =>
                   /\ q.user # <<>>
                   /\ q.form # <<>>
                   /\ q.form[1].size <= TenMegabytes
                   /\ q.form[1].type \in ImageTypes
            /\ q.pc = "done" =>
                   IF q.thrown THEN q.response.status = 500
                   ELSE IF q.user = <<>> THEN Ended(r, 401, "Unauthorized")
                   ELSE IF q.form = <<>> THEN Ended(r, 400, "No file provided")
                   ELSE IF q.form[1].size > TenMegabytes
                   THEN Ended(r, 400, "File size must be less than 10MB")
                   ELSE IF q.form[1].type \notin ImageTypes
                   THEN Ended(r, 400, "Only image files are supported")
                   ELSE q.response.status = 200 /\ PutsOf(r) # {}

\* one request has ended on the size check with a file that fails the type
\* check as well, the other has stored a file of exactly 10MB
C23_Witness ==
    \E r, r2 \in DOMAIN reqs :
        /\ reqs[r].pc = "done" /\ ~reqs[r].thrown
        /\ reqs[r].user # <<>> /\ reqs[r].form # <<>>
        /\ reqs[r].form[1].size > TenMegabytes
        /\ reqs[r].form[1].type \notin ImageTypes
        /\ reqs[r2].pc = "done"
        /\ reqs[r2].response.status = 200
        /\ reqs[r2].form[1].size = TenMegabytes

(***************************************************************************)
(* C24: the file names the route generates for two uploads differ, also    *)
(* for two files of one user with one extension that are uploaded within   *)
(* one millisecond.                                                        *)
(***************************************************************************)
C24_UniqueFilenames ==
    \A j, k \in DOMAIN puts :
        j # k => puts[j].filename # puts[k].filename

(***************************************************************************)
(* C25: in useFileUpload, however the calls of uploadFile that were        *)
(* started together interleave, `uploading` is true while at least one of  *)
(* them has started and not finished, and false once all have finished.    *)
(***************************************************************************)
InFlight(inst) ==
    \E k \in DOMAIN calls : calls[k].inst = inst /\ calls[k].pc = "fetch"

C25_UploadingWhileInFlight ==
    \A inst \in DOMAIN uploading : uploading[inst] <=> InFlight(inst)

(***************************************************************************)
(* C26: submit does nothing while isLoading, or when the trimmed input is  *)
(* empty and no file is uploaded; otherwise it appends exactly one user    *)
(* message and empties uploadedFiles.  A file that was added to the store  *)
(* is attached to at most one message, and leaves the store with a message *)
(* only as one of that message's attachments.                              *)
(***************************************************************************)
\* t is s without the white space at its two ends
IsTrimOf(t, s) ==
    /\ \E i \in 0..Len(s) :
           /\ i + Len(t) <= Len(s)
           /\ SubSeq(s, i + 1, i + Len(t)) = t
           /\ \A k \in (1..i) \cup ((i + Len(t) + 1)..Len(s)) : s[k] \in WhiteSpace
    /\ t # <<>> => t[1] \notin WhiteSpace /\ t[Len(t)] \notin WhiteSpace

\* submit returns at once
Blocked == isLoading \/ (IsTrimOf(<<>>, input) /\ uploadedFiles = <<>>)

\* message is the one submit sends for the text and the files
IsSent(message, text, files) ==
    /\ message.role = "user"
    /\ Len(message.parts) = 1
    /\ message.parts[1].type = "text"
    /\ IsTrimOf(message.parts[1].text, text)
    /\ Len(message.experimental_attachments) = Len(files)
    /\ \A k \in DOMAIN files :
           /\ message.experimental_attachments[k].url = files[k].url
           /\ message.experimental_attachments[k].contentType = files[k].type
           /\ message.experimental_attachments[k].size = files[k].size

\* one message is appended for the input and the store as they are, and
\* the store is emptied
Sends ==
    /\ Len(messages') = Len(messages) + 1
    /\ SubSeq(messages', 1, Len(messages)) = messages
    /\ IsSent(messages'[Len(messages')], input, uploadedFiles)
    /\ uploadedFiles' = <<>>

\* the places where the upload with url k is attached
AttachedAt(k) ==
    {ma \in (DOMAIN messages) \X (DOMAIN calls) :
        /\ ma[2] \in DOMAIN messages[ma[1]].experimental_attachments
        /\ messages[ma[1]].experimental_attachments[ma[2]].url = k}

\* the urls of the store
Stored(files) == {files[k].url : k \in DOMAIN files}

C26_SubmitSendsStoreOnce ==
    /\ [](\A k \in DOMAIN calls : Cardinality(AttachedAt(k)) <= 1)
    /\ []((~Blocked /\ Len(messages) < MaxMessages) => ENABLED (ClientNext /\ Sends))
    /\ [][/\ messages' # messages => ~Blocked /\ Sends
          /\ (messages' = messages /\ Stored(uploadedFiles) \ Stored(uploadedFiles') # {})
                 => /\ Cardinality(Stored(uploadedFiles) \ Stored(uploadedFiles')) = 1
                    /\ Len(uploadedFiles') = Len(uploadedFiles) - 1
                    /\ input' = input]_vars

\* two messages were sent, the first with the first upload and the second,
\* without text, with an upload that arrived after the first was sent
C26_Witness ==
    /\ Len(messages) = 2
    /\ Len(messages[1].experimental_attachments) = 1
    /\ messages[1].experimental_attachments[1].url = 1
    /\ messages[1].parts[1].text = <<"h">>
    /\ Len(messages[2].experimental_attachments) = 1
    /\ messages[2].experimental_attachments[1].url = 2
    /\ messages[2].parts[1].text = <<>>

====
